---- MODULE Spec2Model ----
(***************************************************************************)
(* Model of the jenkins-cdk topology assembler.                            *)
(*                                                                         *)
(*   bin entry point   : reads APP_NAME and constructs one AppStack        *)
(*   lib/app-stack.ts  : AppStack constructor, a straight-line sequence    *)
(*                       of resource declarations, and addAppTag           *)
(*                                                                         *)
(* The constructor is modelled statement by statement.  Every declared     *)
(* construct is a record kept in `node` under the name of the local        *)
(* variable that holds it in the source (cluster, vpc, fs, accessPoint,    *)
(* taskDef, cd, fService, lb, lbListener, lbTarget).  A construct refers   *)
(* to another one by that name.                                            *)
(*                                                                         *)
(* What the provisioning engine and the container platform do with the     *)
(* assembled description (deploy, replace the running task, tear down) is  *)
(* not code of the repository; the last section models it from the         *)
(* design document, reading the parameters the constructor declared.       *)
(***************************************************************************)
EXTENDS Integers, Sequences, FiniteSets, TLC

(***************************************************************************)
(* Bounds of the model.                                                    *)
(***************************************************************************)
MaxNameLen == 2        \* generated application names have at most this length
MaxDeploys == 2        \* service redeployments followed after the first deploy

(***************************************************************************)
(* JavaScript values: undefined, strings and the props object.             *)
(***************************************************************************)
Undef == [t |-> "undefined"]

Str(s) == [t |-> "string", v |-> s]

\* JS truthiness of undefined and of strings: only '' and undefined are falsy
Falsy(x) == x.t = "undefined" \/ (x.t = "string" /\ x.v = "")

\* a || b
Or(a, b) == IF Falsy(a) THEN b ELSE a

\* string conversion as done by `+` and by template literals
ToStr(x) == IF x.t = "undefined" THEN "undefined" ELSE x.v

\* props?.appName
OptAppName(p) == IF p.t = "undefined" THEN Undef ELSE p.appName

(***************************************************************************)
(* Inputs: the values APP_NAME can have in the process environment.        *)
(***************************************************************************)
Alphabet == {"a", "b"}

RECURSIVE NamesUpTo(_)
NamesUpTo(n) ==
    IF n = 0 THEN {""}
    ELSE LET S == NamesUpTo(n - 1) IN S \cup {s \o c : s \in S, c \in Alphabet}

AppNames == {"ci", "demo"} \cup (NamesUpTo(MaxNameLen) \ {""})

EnvValues == {Undef} \cup {Str(s) : s \in AppNames \cup {""}}

(***************************************************************************)
(* lib/app-stack.ts: pure parts of the constructor.                        *)
(***************************************************************************)
jenkinsHomeDir == "jenkins-home"

ResolveAppName_NoDefault(p) == ToStr(OptAppName(p))

\* this.appName = props?.appName || ''
ResolveAppName(p) == Or(OptAppName(p), Str("")).v

AssetName_NoDash(name, suffix) == name \o suffix

\* `${this.appName}-<suffix>`
AssetName(name, suffix) == name \o "-" \o suffix

\* Duration.minutes(m) and Duration.seconds(s), in seconds
Minutes(m) == m * 60

Seconds(s) == s

addAppTag_AssetKey(tagset, resource, name) ==
    tagset \cup {[scope |-> resource, key |-> "Name", value |-> name]}

\* Tags.of(resource).add('AppName', this.appName)
addAppTag(tagset, resource, name) ==
    tagset \cup {[scope |-> resource, key |-> "AppName", value |-> name]}

NoNode == [kind |-> "undeclared"]

Keys == {"cluster", "vpc", "fs", "accessPoint", "taskDef", "cd",
         "fService", "lb", "lbListener", "lbTarget"}

\* new ecs.Cluster(this, assetName, { clusterName }); it brings its own vpc
NewCluster(id, name) ==
    [kind |-> "cluster", id |-> id, scope |-> "stack",
     clusterName |-> name, vpc |-> "vpc"]

\* cluster.vpc
ClusterVpc == [kind |-> "vpc", scope |-> "cluster"]

NewFileSystem_Retain(id, name) ==
    [kind |-> "fileSystem", id |-> id, scope |-> "stack", vpc |-> "vpc",
     fileSystemName |-> name, removalPolicy |-> "retain"]

\* new efs.FileSystem(this, assetName, { vpc, fileSystemName, removalPolicy })
NewFileSystem(id, name) ==
    [kind |-> "fileSystem", id |-> id, scope |-> "stack", vpc |-> "vpc",
     fileSystemName |-> name, removalPolicy |-> "destroy"]

NewAccessPoint_BarePath(id) ==
    [kind |-> "accessPoint", id |-> id, scope |-> "fs", fileSystem |-> "fs",
     path |-> jenkinsHomeDir,
     posixUser |-> [uid |-> "1000", gid |-> "1000"],
     createAcl |-> [ownerGid |-> "1000", ownerUid |-> "1000",
                    permissions |-> "755"]]

\* fs.addAccessPoint(assetName, { path, posixUser, createAcl })
NewAccessPoint(id) ==
    [kind |-> "accessPoint", id |-> id, scope |-> "fs", fileSystem |-> "fs",
     path |-> "/" \o jenkinsHomeDir,
     posixUser |-> [uid |-> "1000", gid |-> "1000"],
     createAcl |-> [ownerGid |-> "1000", ownerUid |-> "1000",
                    permissions |-> "755"]]

\* new ecs.FargateTaskDefinition(this, assetName, { family, cpu, memoryLimitMiB })
NewTaskDefinition(id, name) ==
    [kind |-> "taskDefinition", id |-> id, scope |-> "stack", family |-> name,
     cpu |-> 1024, memoryLimitMiB |-> 2048,
     volumes |-> << >>, containers |-> << >>]

\* the argument of taskDef.addVolume
Volume ==
    [name |-> jenkinsHomeDir,
     efsVolumeConfiguration |->
        [fileSystemId |-> "fs",
         transitEncryption |-> "ENABLED",
         authorizationConfig |-> [accessPointId |-> "accessPoint",
                                  iam |-> "ENABLED"]]]

\* taskDef.addContainer(this.appName, { image, logging, portMappings })
NewContainer(name) ==
    [kind |-> "container", id |-> name, scope |-> "taskDef",
     taskDefinition |-> "taskDef",
     image |-> "jenkins/jenkins:lts",
     logging |-> [driver |-> "awslogs", streamPrefix |-> "jenkins"],
     portMappings |-> << [containerPort |-> 8080] >>,
     mountPoints |-> << >>]

MountPoint_OtherVolume ==
    [containerPath |-> "/var/jenkins_home", sourceVolume |-> "jenkins_home",
     readOnly |-> FALSE]

\* the argument of cd.addMountPoints
MountPoint ==
    [containerPath |-> "/var/jenkins_home", sourceVolume |-> jenkinsHomeDir,
     readOnly |-> FALSE]

NewFargateService_DefaultMax(id, name) ==
    [kind |-> "service", id |-> id, scope |-> "stack", serviceName |-> name,
     cluster |-> "cluster", taskDefinition |-> "taskDef",
     desiredCount |-> 1, maxHealthyPercent |-> 200, minHealthyPercent |-> 0,
     healthCheckGracePeriod |-> Minutes(5)]

\* new ecs.FargateService(this, assetName, { ... })
NewFargateService(id, name) ==
    [kind |-> "service", id |-> id, scope |-> "stack", serviceName |-> name,
     cluster |-> "cluster", taskDefinition |-> "taskDef",
     desiredCount |-> 1, maxHealthyPercent |-> 100, minHealthyPercent |-> 0,
     healthCheckGracePeriod |-> Minutes(5)]

AllowToRule_Lb == [from |-> "fService", to |-> "lb", port |-> 2049]

\* fService.connections.allowTo(fs, Port.tcp(2049))
AllowToRule == [from |-> "fService", to |-> "fs", port |-> 2049]

\* new elbv2.ApplicationLoadBalancer(this, assetName, { ... })
NewLoadBalancer(id, name) ==
    [kind |-> "loadBalancer", id |-> id, scope |-> "stack",
     loadBalancerName |-> name, vpc |-> "vpc", internetFacing |-> TRUE]

NewListener_Https(id) ==
    [kind |-> "listener", id |-> id, scope |-> "lb", loadBalancer |-> "lb",
     port |-> 443]

\* lb.addListener(assetName, { port: 80 })
NewListener(id) ==
    [kind |-> "listener", id |-> id, scope |-> "lb", loadBalancer |-> "lb",
     port |-> 80]

\* lbListener.addTargets(assetName, { port, targets, deregistrationDelay, healthCheck })
NewTargetGroup(id) ==
    [kind |-> "targetGroup", id |-> id, scope |-> "lbListener",
     listener |-> "lbListener", port |-> 8080, targets |-> << "fService" >>,
     deregistrationDelay |-> Seconds(10), healthCheck |-> [path |-> "/login"]]

St(op, arg) == [op |-> op, arg |-> arg]

Statements_ServiceFirst ==
    << St("appName", ""),
       St("name", "cluster"),  St("new", "cluster"),     St("tag", "cluster"),
       St("new", "vpc"),       St("tag", "vpc"),
       St("name", "efs"),      St("new", "fs"),          St("tag", "fs"),
       St("name", "ap"),       St("new", "accessPoint"), St("tag", "accessPoint"),
       St("name", "service"),  St("new", "fService"),
       St("name", "task"),     St("new", "taskDef"),     St("tag", "taskDef"),
       St("addVolume", ""),    St("addContainer", ""),   St("addMountPoints", ""),
       St("allowTo", ""),      St("tag", "fService"),
       St("name", "elb"),      St("new", "lb"),          St("tag", "lb"),
       St("name", "listener"), St("new", "lbListener"),  St("tag", "lbListener"),
       St("name", "target"),   St("new", "lbTarget") >>

\* the statements of the constructor body, in source order
Statements ==
    << St("appName", ""),
       St("name", "cluster"),  St("new", "cluster"),     St("tag", "cluster"),
       St("new", "vpc"),       St("tag", "vpc"),
       St("name", "efs"),      St("new", "fs"),          St("tag", "fs"),
       St("name", "ap"),       St("new", "accessPoint"), St("tag", "accessPoint"),
       St("name", "task"),     St("new", "taskDef"),     St("tag", "taskDef"),
       St("addVolume", ""),    St("addContainer", ""),   St("addMountPoints", ""),
       St("name", "service"),  St("new", "fService"),
       St("allowTo", ""),      St("tag", "fService"),
       St("name", "elb"),      St("new", "lb"),          St("tag", "lb"),
       St("name", "listener"), St("new", "lbListener"),  St("tag", "lbListener"),
       St("name", "target"),   St("new", "lbTarget") >>

(***************************************************************************)
(* State.                                                                  *)
(***************************************************************************)
VARIABLES
    env,        \* process.env.APP_NAME
    pc,         \* 0: before the constructor call; i: about to run Statements[i]
    stackId,    \* the id given to the stack
    props,      \* the constructor's props argument
    appName,    \* this.appName
    assetName,  \* the local variable assetName
    node,       \* the declared constructs, by the local name holding them
    order,      \* the names in node, in the order of their declaration
    tags,       \* the tags added with Tags.of(..).add
    allow,      \* the rules added with connections.allowTo
    phase,      \* assembling, deployed or destroyed
    live,       \* the constructs that exist on the platform
    running,    \* running tasks of the service's current deployment
    draining,   \* running tasks of an earlier deployment
    deploys     \* number of redeployments so far

ctorVars == << stackId, props, appName, assetName, node, order, tags, allow >>

envVars == << phase, live, running, draining, deploys >>

vars == << env, pc, stackId, props, appName, assetName, node, order, tags,
           allow, phase, live, running, draining, deploys >>

Init ==
    /\ env \in [APP_NAME : EnvValues]
    /\ pc = 0
    /\ stackId = ""
    /\ props = Undef
    /\ appName = ""
    /\ assetName = ""
    /\ node = [k \in Keys |-> NoNode]
    /\ order = << >>
    /\ tags = {}
    /\ allow = {}
    /\ phase = "assembling"
    /\ live = {}
    /\ running = 0
    /\ draining = 0
    /\ deploys = 0

Done == pc = Len(Statements) + 1

At(op) == pc \in 1..Len(Statements) /\ Statements[pc].op = op

Arg == Statements[pc].arg

Declared(k) == node[k] # NoNode

(***************************************************************************)
(* The entry point: new AppStack(app, APP_NAME + '-app-stack', {...}).     *)
(***************************************************************************)
Main ==
    /\ pc = 0
    /\ stackId' = ToStr(env.APP_NAME) \o "-app-stack"
    /\ props' = [t |-> "object", appName |-> Or(env.APP_NAME, Str(""))]
    /\ pc' = 1
    /\ UNCHANGED << env, appName, assetName, node, order, tags, allow >>
    /\ UNCHANGED envVars

\* props is optional: a caller may construct the stack without it
NewAppStackNoProps ==
    /\ pc = 0
    /\ stackId' = "app-stack"
    /\ props' = Undef
    /\ pc' = 1
    /\ UNCHANGED << env, appName, assetName, node, order, tags, allow >>
    /\ UNCHANGED envVars

(***************************************************************************)
(* The constructor body, one action per kind of statement.                 *)
(***************************************************************************)
SetAppName ==
    /\ At("appName")
    /\ appName' = ResolveAppName(props)
    /\ pc' = pc + 1
    /\ UNCHANGED << env, stackId, props, assetName, node, order, tags, allow >>
    /\ UNCHANGED envVars

SetAssetName ==
    /\ At("name")
    /\ assetName' = AssetName(appName, Arg)
    /\ pc' = pc + 1
    /\ UNCHANGED << env, stackId, props, appName, node, order, tags, allow >>
    /\ UNCHANGED envVars

NewNode(k) ==
    CASE k = "cluster"     -> NewCluster(assetName, appName)
      [] k = "vpc"         -> ClusterVpc
      [] k = "fs"          -> NewFileSystem(assetName, appName)
      [] k = "accessPoint" -> NewAccessPoint(assetName)
      [] k = "taskDef"     -> NewTaskDefinition(assetName, appName)
      [] k = "fService"    -> NewFargateService(assetName, appName)
      [] k = "lb"          -> NewLoadBalancer(assetName, appName)
      [] k = "lbListener"  -> NewListener(assetName)
      [] k = "lbTarget"    -> NewTargetGroup(assetName)

Declare ==
    /\ At("new")
    /\ node' = [node EXCEPT ![Arg] = NewNode(Arg)]
    /\ order' = Append(order, Arg)
    /\ pc' = pc + 1
    /\ UNCHANGED << env, stackId, props, appName, assetName, tags, allow >>
    /\ UNCHANGED envVars

AddAppTag ==
    /\ At("tag")
    /\ tags' = addAppTag(tags, Arg, appName)
    /\ pc' = pc + 1
    /\ UNCHANGED << env, stackId, props, appName, assetName, node, order, allow >>
    /\ UNCHANGED envVars

AddVolume ==
    /\ At("addVolume")
    /\ node' = [node EXCEPT !["taskDef"].volumes = Append(@, Volume)]
    /\ pc' = pc + 1
    /\ UNCHANGED << env, stackId, props, appName, assetName, order, tags, allow >>
    /\ UNCHANGED envVars

AddContainer ==
    /\ At("addContainer")
    /\ node' = [node EXCEPT !["taskDef"].containers = Append(@, "cd"),
                            !["cd"] = NewContainer(appName)]
    /\ order' = Append(order, "cd")
    /\ pc' = pc + 1
    /\ UNCHANGED << env, stackId, props, appName, assetName, tags, allow >>
    /\ UNCHANGED envVars

AddMountPoints ==
    /\ At("addMountPoints")
    /\ node' = [node EXCEPT !["cd"].mountPoints = Append(@, MountPoint)]
    /\ pc' = pc + 1
    /\ UNCHANGED << env, stackId, props, appName, assetName, order, tags, allow >>
    /\ UNCHANGED envVars

AllowTo ==
    /\ At("allowTo")
    /\ allow' = allow \cup {AllowToRule}
    /\ pc' = pc + 1
    /\ UNCHANGED << env, stackId, props, appName, assetName, node, order, tags >>
    /\ UNCHANGED envVars

Constructor ==
    \/ SetAppName
    \/ SetAssetName
    \/ Declare
    \/ AddAppTag
    \/ AddVolume
    \/ AddContainer
    \/ AddMountPoints
    \/ AllowTo

(***************************************************************************)
(* Reading the assembled description.                                      *)
(***************************************************************************)
Range(f) == {f[i] : i \in DOMAIN f}

\* a construct, the construct it was created in, and so on up to the stack
RECURSIVE ScopeChain(_)
ScopeChain(k) ==
    IF k \in Keys /\ Declared(k) THEN {k} \cup ScopeChain(node[k].scope) ELSE {k}

\* Tags.of(x).add(..) tags x and every construct created in the scope of x
TagsOf(k) ==
    {[key |-> t.key, value |-> t.value] :
        t \in {u \in tags : u.scope \in ScopeChain(k)}}

\* the constructs a declared construct refers to
Refs(k) ==
    IF ~Declared(k) THEN {}
    ELSE CASE k = "cluster"     -> {node[k].vpc}
           [] k = "vpc"         -> {}
           [] k = "fs"          -> {node[k].vpc}
           [] k = "accessPoint" -> {node[k].fileSystem}
           [] k = "taskDef"     ->
                UNION {{v.efsVolumeConfiguration.fileSystemId,
                        v.efsVolumeConfiguration.authorizationConfig.accessPointId} :
                       v \in Range(node[k].volumes)}
           [] k = "cd"          -> {node[k].taskDefinition}
           [] k = "fService"    ->
                {node[k].cluster, node[k].taskDefinition}
                    \cup {r.to : r \in {a \in allow : a.from = k}}
           [] k = "lb"          -> {node[k].vpc}
           [] k = "lbListener"  -> {node[k].loadBalancer}
           [] k = "lbTarget"    -> {node[k].listener} \cup Range(node[k].targets)

(***************************************************************************)
(* The platform, as the design document describes it: the provisioning     *)
(* engine creates all declared constructs in one deployment and deletes    *)
(* them in one teardown, keeping only what is declared to be retained; the *)
(* container service keeps the number of running tasks between the         *)
(* service's minimum and maximum healthy percentages of the desired count. *)
(***************************************************************************)
Retained(k) ==
    /\ "removalPolicy" \in DOMAIN node[k]
    /\ node[k].removalPolicy = "retain"

\* lower and upper limit of running tasks during a deployment
MinRunning == (node["fService"].desiredCount * node["fService"].minHealthyPercent + 99) \div 100

MaxRunning == (node["fService"].desiredCount * node["fService"].maxHealthyPercent) \div 100

Deploy ==
    /\ Done
    /\ phase = "assembling"
    /\ phase' = "deployed"
    /\ live' = {k \in Keys : Declared(k)}
    /\ UNCHANGED << running, draining, deploys >>
    /\ UNCHANGED << env, pc >>
    /\ UNCHANGED ctorVars

StartTask ==
    /\ phase = "deployed"
    /\ running < node["fService"].desiredCount
    /\ running + draining + 1 <= MaxRunning
    /\ running' = running + 1
    /\ UNCHANGED << phase, live, draining, deploys >>
    /\ UNCHANGED << env, pc >>
    /\ UNCHANGED ctorVars

Redeploy ==
    /\ phase = "deployed"
    /\ deploys < MaxDeploys
    /\ deploys' = deploys + 1
    /\ draining' = draining + running
    /\ running' = 0
    /\ UNCHANGED << phase, live >>
    /\ UNCHANGED << env, pc >>
    /\ UNCHANGED ctorVars

StopTask ==
    /\ phase = "deployed"
    /\ draining > 0
    /\ running + draining - 1 >= MinRunning
    /\ draining' = draining - 1
    /\ UNCHANGED << phase, live, running, deploys >>
    /\ UNCHANGED << env, pc >>
    /\ UNCHANGED ctorVars

Teardown ==
    /\ phase = "deployed"
    /\ phase' = "destroyed"
    /\ live' = {k \in live : Retained(k)}
    /\ running' = 0
    /\ draining' = 0
    /\ UNCHANGED deploys
    /\ UNCHANGED << env, pc >>
    /\ UNCHANGED ctorVars

Next ==
    \/ Main
    \/ NewAppStackNoProps
    \/ SetAppName
    \/ SetAssetName
    \/ Declare
    \/ AddAppTag
    \/ AddVolume
    \/ AddContainer
    \/ AddMountPoints
    \/ AllowTo
    \/ Deploy
    \/ StartTask
    \/ Redeploy
    \/ StopTask
    \/ Teardown

Spec == Init /\ [][Next]_vars

\* the constructor is straight-line synchronous code and runs to its end;
\* the platform keeps replacing stopped tasks
LiveSpec ==
    /\ Init
    /\ [][Next]_vars
    /\ WF_vars(Constructor)
    /\ WF_vars(StartTask)
    /\ WF_vars(StopTask)

(***************************************************************************)
(* Vocabulary of the properties.                                           *)
(***************************************************************************)
\* the eight declared resources, in the order of the design's chain
Chain == << "cluster", "fs", "accessPoint", "taskDef", "fService", "lb",
            "lbListener", "lbTarget" >>

Eight == Range(Chain)

Entities == Eight \cup {"vpc"}

Suffix == [k \in Eight |->
    CASE k = "cluster"     -> "cluster"
      [] k = "fs"          -> "efs"
      [] k = "accessPoint" -> "ap"
      [] k = "taskDef"     -> "task"
      [] k = "fService"    -> "service"
      [] k = "lb"          -> "elb"
      [] k = "lbListener"  -> "listener"
      [] k = "lbTarget"    -> "target"]

\* the application name the caller gave ('' when it gave none)
InputName == IF props.t = "object" THEN props.appName.v ELSE ""

AllDeclared == \A k \in Eight : Declared(k)

Referrers(e) == {k \in Entities : e \in Refs(k)}

RECURSIVE ReachN(_, _)
ReachN(S, n) ==
    IF n = 0 THEN S ELSE ReachN(S \cup UNION {Refs(x) : x \in S}, n - 1)

Acyclic == \A k \in Keys : k \notin ReachN(Refs(k), Cardinality(Keys))

IsEight(k) == k \in Eight

\* the position of a name in the declaration order (0 when absent)
Pos(k) == IF \E i \in DOMAIN order : order[i] = k
          THEN CHOOSE i \in DOMAIN order : order[i] = k ELSE 0

C2_DeclarationOrderIsDag ==
    /\ LET ord8 == SelectSeq(order, IsEight)
       IN  ord8 = SubSeq(Chain, 1, Len(ord8))
    /\ \A i \in DOMAIN order :
          \A r \in Refs(order[i]) \cap Eight :
              \E j \in 1..(i - 1) : order[j] = r
    /\ Declared("fService") =>
          /\ {"cluster", "taskDef"} \subseteq Refs("fService")
          /\ Declared("cluster") /\ Declared("taskDef")
    /\ Declared("lbTarget") =>
          /\ {"lbListener", "fService"} \subseteq Refs("lbTarget")
          /\ Declared("lbListener") /\ Declared("fService")
    /\ Acyclic

C2_Witness ==
    /\ Done
    /\ SelectSeq(order, IsEight) = Chain
    /\ Pos("taskDef") < Pos("fService")
    /\ Pos("fService") < Pos("lbTarget")

(***************************************************************************)
(* C3: every identifier of the eight resources is the application name,    *)
(* a dash and the role suffix; cluster, file system, service, load         *)
(* balancer and task-definition family carry the bare application name;    *)
(* the name "ci" gives ci-cluster ... ci-target.                           *)
(***************************************************************************)
C3_IdentifiersFollowConvention ==
    /\ \A k \in Eight :
          Declared(k) => node[k].id = InputName \o "-" \o Suffix[k]
    /\ Declared("cluster")  => node["cluster"].clusterName = InputName
    /\ Declared("fs")       => node["fs"].fileSystemName = InputName
    /\ Declared("fService") => node["fService"].serviceName = InputName
    /\ Declared("lb")       => node["lb"].loadBalancerName = InputName
    /\ Declared("taskDef")  => node["taskDef"].family = InputName
    /\ (Done /\ InputName = "ci") =>
          /\ AllDeclared
          /\ [k \in Eight |-> node[k].id] =
                [k \in Eight |->
                    CASE k = "cluster"     -> "ci-cluster"
                      [] k = "fs"          -> "ci-efs"
                      [] k = "accessPoint" -> "ci-ap"
                      [] k = "taskDef"     -> "ci-task"
                      [] k = "fService"    -> "ci-service"
                      [] k = "lb"          -> "ci-elb"
                      [] k = "lbListener"  -> "ci-listener"
                      [] k = "lbTarget"    -> "ci-target"]

C3_Witness ==
    /\ Done
    /\ InputName = "ci"
    /\ node["lbTarget"].id = "ci-target"
    /\ node["taskDef"].family = "ci"

(***************************************************************************)
(* C4: the file system is always declared with removal policy destroy;     *)
(* all declared constructs are created by the one deployment; after the    *)
(* teardown no file system remains and nothing outlives the rest.          *)
(***************************************************************************)
C4_SharedLifecycleNoResidue ==
    /\ Declared("fs") => node["fs"].removalPolicy = "destroy"
    /\ phase = "assembling" => live = {}
    /\ phase = "deployed" => (AllDeclared /\ live = {k \in Keys : Declared(k)})
    /\ phase = "destroyed" => ("fs" \notin live /\ live = {})

C4_Witness ==
    /\ phase = "destroyed"
    /\ InputName = "demo"
    /\ Declared("fs")
    /\ "fs" \notin live

(***************************************************************************)
(* C5: after assembly the task definition has exactly one container, one   *)
(* volume and one port mapping, for container port 8080; the access point  *)
(* of the volume has path /jenkins-home, uid and gid 1000 both as posix    *)
(* user and as creation owner, and permissions 755.                        *)
(***************************************************************************)
C5_TaskDefinitionShape ==
    Done =>
        LET td == node["taskDef"]
        IN  /\ Len(td.containers) = 1
            /\ Len(td.volumes) = 1
            /\ {k \in Keys : Declared(k) /\ node[k].kind = "container"}
                  = Range(td.containers)
            /\ node[td.containers[1]].portMappings = << [containerPort |-> 8080] >>
            /\ LET ap == node[td.volumes[1].efsVolumeConfiguration
                                 .authorizationConfig.accessPointId]
               IN  /\ ap.kind = "accessPoint"
                   /\ ap.path = "/jenkins-home"
                   /\ ap.posixUser = [uid |-> "1000", gid |-> "1000"]
                   /\ ap.createAcl.ownerUid = "1000"
                   /\ ap.createAcl.ownerGid = "1000"
                   /\ ap.createAcl.permissions = "755"

C5_Witness ==
    /\ Done
    /\ Len(node["taskDef"].volumes) = 1
    /\ node["accessPoint"].path = "/jenkins-home"
    /\ Len(node["cd"].portMappings) = 1

(***************************************************************************)
(* C6: the load balancer is internet-facing; it has exactly one listener,  *)
(* on port 80; that listener has exactly one target group, which forwards  *)
(* to port 8080 of the service and health-checks /login; the container of  *)
(* the service exposes that port; there is no other listener or target     *)
(* group port.                                                             *)
(***************************************************************************)
C6_OnlyPort80To8080 ==
    Done =>
        LET listeners == {k \in Keys : Declared(k) /\ node[k].kind = "listener"}
            groups    == {k \in Keys : Declared(k) /\ node[k].kind = "targetGroup"}
        IN  /\ node["lb"].internetFacing = TRUE
            /\ listeners = {"lbListener"}
            /\ node["lbListener"].loadBalancer = "lb"
            /\ {node[k].port : k \in listeners} = {80}
            /\ groups = {"lbTarget"}
            /\ node["lbTarget"].listener = "lbListener"
            /\ {node[k].port : k \in groups} = {8080}
            /\ node["lbTarget"].targets = << "fService" >>
            /\ node["lbTarget"].healthCheck.path = "/login"
            /\ \E c \in Range(node[node["fService"].taskDefinition].containers) :
                  \E m \in Range(node[c].portMappings) :
                      m.containerPort = node["lbTarget"].port

C6_Witness ==
    /\ Done
    /\ node["lbListener"].port = 80
    /\ node["lbTarget"].port = 8080
    /\ node["lb"].internetFacing

(***************************************************************************)
(* C7 as stated: no entity but the virtual network is referred to by more  *)
(* than one entity, and the virtual network is referred to by exactly the  *)
(* cluster, the file system and the load balancer.                         *)
(***************************************************************************)
C7_OnlyVpcShared ==
    Done =>
        /\ \A e \in Entities \ {"vpc"} : Cardinality(Referrers(e)) <= 1
        /\ Referrers("vpc") = {"cluster", "fs", "lb"}

(***************************************************************************)
(* C7 amended: no entity but the virtual network and the file system is    *)
(* referred to by more than one entity; the virtual network is referred to *)
(* by exactly the cluster, the file system and the load balancer, and the  *)
(* file system by exactly the access point, the task definition (through   *)
(* its volume) and the service (through its port 2049 rule).               *)
(***************************************************************************)
C7_OnlyVpcAndFsShared ==
    Done =>
        /\ \A e \in Entities \ {"vpc", "fs"} : Cardinality(Referrers(e)) <= 1
        /\ Referrers("vpc") = {"cluster", "fs", "lb"}
        /\ Referrers("fs") = {"accessPoint", "taskDef", "fService"}

C7_Witness ==
    /\ Done
    /\ Cardinality(Referrers("fs")) = 3
    /\ Cardinality(Referrers("vpc")) = 3
    /\ Referrers("fService") = {"lbTarget"}

(***************************************************************************)
(* C8: the service is declared with desired count 1, minimum healthy 0 and *)
(* maximum healthy 100 percent; on the platform the number of running      *)
(* tasks never exceeds 1; while a task of an earlier deployment runs, it   *)
(* may be stopped and no new task can start, so the count passes through   *)
(* 0; a deployed service comes back to exactly one running task of the     *)
(* current deployment unless the topology is torn down.                    *)
(***************************************************************************)
C8_FullReplacementDeploys ==
    /\ [](Declared("fService") =>
            /\ node["fService"].desiredCount = 1
            /\ node["fService"].minHealthyPercent = 0
            /\ node["fService"].maxHealthyPercent = 100)
    /\ [](running + draining <= 1)
    /\ []((phase = "deployed" /\ draining > 0) =>
            (ENABLED StopTask /\ ~ENABLED StartTask))
    /\ (phase = "deployed") ~>
            ((running = 1 /\ draining = 0) \/ phase = "destroyed")

C8_Witness ==
    /\ phase = "deployed"
    /\ deploys >= 1
    /\ running = 0
    /\ draining = 1
    /\ node["fService"].maxHealthyPercent = 100

(***************************************************************************)
(* C9: with no props or an empty appName the constructor runs to its end,  *)
(* uses '' as the application name, declares all eight resources with the  *)
(* identifiers -cluster, -efs, ..., and gives them an empty tag value and  *)
(* empty platform-visible names.                                           *)
(***************************************************************************)
EmptyInput == pc >= 1 /\ (props = Undef \/ Falsy(props.appName))

EmptyResult ==
    /\ appName = ""
    /\ AllDeclared
    /\ \A k \in Eight :
          /\ node[k].id = "-" \o Suffix[k]
          /\ [key |-> "AppName", value |-> ""] \in TagsOf(k)
    /\ node["cluster"].clusterName = ""
    /\ node["fs"].fileSystemName = ""
    /\ node["fService"].serviceName = ""
    /\ node["lb"].loadBalancerName = ""
    /\ node["taskDef"].family = ""

C10_StorageWiringConsistent ==
    Done =>
        LET c   == node["cd"]
            td  == node[c.taskDefinition]
            vol == td.volumes[1]
            cfg == vol.efsVolumeConfiguration
        IN  /\ Len(c.mountPoints) = 1
            /\ c.mountPoints[1].containerPath = "/var/jenkins_home"
            /\ c.mountPoints[1].readOnly = FALSE
            /\ Len(td.volumes) = 1
            /\ c.mountPoints[1].sourceVolume = vol.name
            /\ cfg.fileSystemId \in Keys /\ Declared(cfg.fileSystemId)
            /\ node[cfg.fileSystemId].kind = "fileSystem"
            /\ cfg.authorizationConfig.accessPointId \in Keys
            /\ node[cfg.authorizationConfig.accessPointId].kind = "accessPoint"
            /\ node[cfg.authorizationConfig.accessPointId].fileSystem
                  = cfg.fileSystemId
            /\ node[cfg.fileSystemId].scope = td.scope
            /\ cfg.transitEncryption = "ENABLED"
            /\ cfg.authorizationConfig.iam = "ENABLED"
            /\ \E r \in allow :
                  /\ node[r.from].kind = "service"
                  /\ node[r.from].taskDefinition = c.taskDefinition
                  /\ r.to = cfg.fileSystemId
                  /\ r.port = 2049

C10_Witness ==
    /\ Done
    /\ Len(node["cd"].mountPoints) = 1
    /\ node["cd"].mountPoints[1].sourceVolume = "jenkins-home"
    /\ AllowToRule \in allow

====
